---- MODULE Spec2Model ----
(***************************************************************************)
(* Model of the API-key settings dialog (src/components/ApiKeySettings.tsx)*)
(* and of the toolbar's row-count field (src/components/Toolbar.tsx).      *)
(*                                                                         *)
(* A JavaScript string is modelled as the sequence of its UTF-16 code      *)
(* units (natural numbers).  Status values and the dialog's messages are   *)
(* TLA+ strings.                                                           *)
(***************************************************************************)
EXTENDS Integers, Sequences, FiniteSets, TLC

VARIABLES
    \* ---- ApiKeySettings component state (useState hooks) ----
    apiKey,        \* the input field's value
    status,        \* 'idle' | 'testing' | 'success' | 'error'
    message,       \* the status message
    showKey,       \* show/hide toggle of the input
    \* ---- the dialog's environment ----
    storage,       \* localStorage[STORAGE_KEY]: [present, value]
    pending,       \* keys of the testConnection calls started and not yet settled
    updateCalls,   \* arguments of the updateApiKey calls made, in order
    timers,        \* number of setTimeout(() => onClose(), 1500) callbacks not yet run
    onCloseCalls,  \* number of invocations of the onClose prop
    \* ---- credential codec exercised on its own ----
    plain, cipher, decoded, codecPc,
    \* ---- Toolbar ----
    rowText,       \* e.target.value of the last change of the row-count field
    rowCountInput, \* the row-count state
    addRowsCalls   \* arguments of the onAddRows calls made, in order

dialogVars  == <<apiKey, status, message, showKey, storage, pending, updateCalls,
                 timers, onCloseCalls>>
codecVars   == <<plain, cipher, decoded, codecPc>>
toolbarVars == <<rowText, rowCountInput, addRowsCalls>>
vars        == <<dialogVars, codecVars, toolbarVars>>

---------------------------------------------------------------------------
(* Bounds of the model *)

\* testConnection calls the model lets be in flight together
MaxInFlight == 2
\* Save clicks with a non-blank input the model lets happen
MaxSaves == 2
\* longest fixed prefix of a codec input (the salt has 25 characters)
MaxPad == 26
\* longest free suffix of a codec input
MaxTail == 2
\* longest text entered into the row-count field
MaxRowTextLen == 2
\* onAddRows calls the model lets happen
MaxAddCalls == 2

---------------------------------------------------------------------------
(* Strings *)

RECURSIVE StringsUpTo(_, _)
\* all strings over alphabet A of length at most n
StringsUpTo(A, n) ==
    IF n = 0 THEN {<<>>}
    ELSE LET shorter == StringsUpTo(A, n - 1)
         IN  shorter \cup {Append(s, c) : s \in shorter, c \in A}

\* JavaScript WhiteSpace and LineTerminator code units, as String.prototype.trim strips
IsWhiteSpace(c) ==
    c \in {9, 10, 11, 12, 13, 32, 160, 5760, 8232, 8233, 8239, 8287, 12288, 65279}
    \/ c \in 8192..8202

RECURSIVE TrimStart(_)
TrimStart(s) ==
    IF s # <<>> /\ IsWhiteSpace(Head(s)) THEN TrimStart(Tail(s)) ELSE s

RECURSIVE TrimEnd(_)
TrimEnd(s) ==
    IF s # <<>> /\ IsWhiteSpace(s[Len(s)]) THEN TrimEnd(SubSeq(s, 1, Len(s) - 1)) ELSE s

\* String.prototype.trim
Trim(s) == TrimEnd(TrimStart(s))

\* a faulty emptiness test: !apiKey, without the trim
IsBlankNoTrim(s) == s = <<>>

\* !apiKey.trim()
IsBlank(s) == Trim(s) = <<>>

---------------------------------------------------------------------------
(* Credential codec *)

\* 'GH_SMART_SECRET_SALT_2025'
SALT == <<71, 72, 95, 83, 77, 65, 82, 84, 95, 83, 69, 67, 82, 69, 84, 95,
          83, 65, 76, 84, 95, 50, 48, 50, 53>>

RECURSIVE Xor(_, _)
\* JavaScript a ^ b on non-negative operands below 2^31
Xor(a, b) ==
    IF a = 0 THEN b
    ELSE IF b = 0 THEN a
    ELSE (((a % 2) + (b % 2)) % 2) + 2 * Xor(a \div 2, b \div 2)

\* saltChars[i % saltChars.length] for the 0-based index i
SaltAt(i) == SALT[(i % Len(SALT)) + 1]

\* the base64 character (code unit) of a 6-bit value
B64Char(v) ==
    CASE v < 26 -> 65 + v
      [] v >= 26 /\ v < 52 -> 97 + (v - 26)
      [] v >= 52 /\ v < 62 -> 48 + (v - 52)
      [] v = 62 -> 43
      [] OTHER -> 47

IsB64Char(c) ==
    c \in 65..90 \/ c \in 97..122 \/ c \in 48..57 \/ c = 43 \/ c = 47

\* the 6-bit value of a base64 character
B64Val(c) ==
    CASE c \in 65..90 -> c - 65
      [] c \in 97..122 -> c - 97 + 26
      [] c \in 48..57 -> c - 48 + 52
      [] c = 43 -> 62
      [] OTHER -> 63

\* btoa throws InvalidCharacterError on a code unit above 255
BtoaThrows(s) == \E i \in 1..Len(s) : s[i] > 255

RECURSIVE Btoa(_)
\* btoa on a string of code units 0..255: standard base64 with '=' padding
Btoa(s) ==
    IF Len(s) = 0 THEN <<>>
    ELSE IF Len(s) = 1 THEN
        <<B64Char(s[1] \div 4), B64Char((s[1] % 4) * 16), 61, 61>>
    ELSE IF Len(s) = 2 THEN
        <<B64Char(s[1] \div 4), B64Char((s[1] % 4) * 16 + (s[2] \div 16)),
          B64Char((s[2] % 16) * 4), 61>>
    ELSE
        <<B64Char(s[1] \div 4), B64Char((s[1] % 4) * 16 + (s[2] \div 16)),
          B64Char((s[2] % 16) * 4 + (s[3] \div 64)), B64Char(s[3] % 64)>>
        \o Btoa(SubSeq(s, 4, Len(s)))

\* atob's first steps: ASCII whitespace removed, then with a length divisible by
\* four one or two trailing '=' removed
AtobStripped(t) ==
    LET noWs == SelectSeq(t, LAMBDA c : c \notin {9, 10, 12, 13, 32})
        n    == Len(noWs)
    IN  IF n > 0 /\ n % 4 = 0 /\ noWs[n] = 61
        THEN IF noWs[n - 1] = 61 THEN SubSeq(noWs, 1, n - 2)
                                 ELSE SubSeq(noWs, 1, n - 1)
        ELSE noWs

\* atob throws InvalidCharacterError on a bad length or a character outside the alphabet
AtobThrows(t) ==
    LET d == AtobStripped(t)
    IN  Len(d) % 4 = 1 \/ \E i \in 1..Len(d) : ~IsB64Char(d[i])

RECURSIVE B64Bytes(_)
\* the bytes of a sequence of 6-bit values; the bits of an incomplete byte are dropped
B64Bytes(v) ==
    IF Len(v) < 2 THEN <<>>
    ELSE IF Len(v) = 2 THEN <<v[1] * 4 + (v[2] \div 16)>>
    ELSE IF Len(v) = 3 THEN <<v[1] * 4 + (v[2] \div 16), (v[2] % 16) * 16 + (v[3] \div 4)>>
    ELSE <<v[1] * 4 + (v[2] \div 16), (v[2] % 16) * 16 + (v[3] \div 4), (v[3] % 4) * 64 + v[4]>>
         \o B64Bytes(SubSeq(v, 5, Len(v)))

\* atob on a string it does not throw on
Atob(t) ==
    LET d == AtobStripped(t)
    IN  B64Bytes([i \in 1..Len(d) |-> B64Val(d[i])])

\* chars.map((c, i) => c.charCodeAt(0) ^ saltChars[i % saltChars.length].charCodeAt(0))
XorSalt(chars) == [i \in 1..Len(chars) |-> Xor(chars[i], SaltAt(i - 1))]

\* encryptKey takes its catch branch: btoa throws on the XORed characters
EncryptFails(key) == BtoaThrows(XorSalt(key))

\* encryptKey: XOR with the repeating salt, then btoa; '' when btoa throws
encryptKey(key) == IF EncryptFails(key) THEN <<>> ELSE Btoa(XorSalt(key))

\* a faulty decryptKey: past the end of the salt it keeps using the last salt
\* character instead of wrapping around
decryptKeyNoWrap(encrypted) ==
    IF AtobThrows(encrypted) THEN <<>>
    ELSE LET chars == Atob(encrypted)
         IN  [i \in 1..Len(chars) |->
                 Xor(chars[i], SALT[IF i <= Len(SALT) THEN i ELSE Len(SALT)])]

\* decryptKey: atob, then XOR with the repeating salt; '' when atob throws
decryptKey(encrypted) ==
    IF AtobThrows(encrypted) THEN <<>> ELSE XorSalt(Atob(encrypted))

\* localStorage.getItem(STORAGE_KEY) === null
NoRecord == [present |-> FALSE, value |-> <<>>]

Record(v) == [present |-> TRUE, value |-> v]

\* loadSavedApiKey applied to the stored record: `if (saved)` is false for null and ''
loadSavedApiKey(rec) ==
    IF rec.present /\ rec.value # <<>> THEN decryptKey(rec.value) ELSE <<>>

---------------------------------------------------------------------------
(* Settings dialog: ApiKeySettings *)

\* the values typed or pasted into the input field: '', ' ', 'A', 'B ' and
\* 'A' followed by U+200B (a zero-width space: not a byte, and not white space)
DialogInputs == {<<>>, <<32>>, <<65>>, <<66, 32>>, <<65, 8203>>}

\* 'API 키를 입력해주세요.'
MsgEnterKey == "enter an API key"
\* '연결 테스트 중...'
MsgTesting == "testing the connection"
\* '연결 성공!'
MsgConnected == "connected"
\* '연결 실패. API 키를 확인해주세요.'
MsgConnectFailed == "connection failed, check the API key"
\* '저장할 API 키가 없습니다.'
MsgNothingToSave == "no API key to save"
\* '암호화되어 안전하게 저장되었습니다.'
MsgSaved == "encrypted and saved"

\* what an earlier session of the dialog can have left under STORAGE_KEY:
\* nothing, or what handleSave wrote for an input it accepted
StoredRecords ==
    {NoRecord} \cup {Record(encryptKey(k)) : k \in {x \in DialogInputs : ~IsBlank(x)}}

\* the dialog is on screen until onClose has been invoked: its owner unmounts it
DialogOpen == onCloseCalls = 0

\* disabled={status === 'testing' || !apiKey} of the Test and the Save button
ButtonsDisabled == status = "testing" \/ apiKey = <<>>

\* the sequence s without its i-th element
RemoveAt(s, i) == SubSeq(s, 1, i - 1) \o SubSeq(s, i + 1, Len(s))

\* the dialog not mounted
DialogIdle ==
    /\ storage = NoRecord
    /\ apiKey = <<>>
    /\ status = "idle"
    /\ message = ""
    /\ showKey = FALSE
    /\ pending = <<>>
    /\ updateCalls = <<>>
    /\ timers = 0
    /\ onCloseCalls = 0

\* useState initial values, then the mount effect: load the saved key into the field
DialogInit ==
    /\ storage \in StoredRecords
    /\ apiKey = loadSavedApiKey(storage)
    /\ status = "idle"
    /\ message = ""
    /\ showKey = FALSE
    /\ pending = <<>>
    /\ updateCalls = <<>>
    /\ timers = 0
    /\ onCloseCalls = 0

\* the input's onChange
ChangeInput(v) ==
    /\ DialogOpen
    /\ v # apiKey
    /\ apiKey' = v
    /\ status' = "idle"
    /\ message' = ""
    /\ UNCHANGED <<showKey, storage, pending, updateCalls, timers, onCloseCalls>>
    /\ UNCHANGED <<codecVars, toolbarVars>>

\* the eye button: setShowKey(!showKey)
ToggleShowKey ==
    /\ DialogOpen
    /\ showKey' = ~showKey
    /\ UNCHANGED <<apiKey, status, message, storage, pending, updateCalls, timers,
                   onCloseCalls>>
    /\ UNCHANGED <<codecVars, toolbarVars>>

\* a click on the Test button: handleTest up to its await
HandleTest ==
    /\ DialogOpen
    /\ ~ButtonsDisabled
    /\ \/ /\ IsBlank(apiKey)
          /\ status' = "error"
          /\ message' = MsgEnterKey
          /\ UNCHANGED pending
       \/ /\ ~IsBlank(apiKey)
          /\ Len(pending) < MaxInFlight
          /\ status' = "testing"
          /\ message' = MsgTesting
          /\ pending' = Append(pending, apiKey)
    /\ UNCHANGED <<apiKey, showKey, storage, updateCalls, timers, onCloseCalls>>
    /\ UNCHANGED <<codecVars, toolbarVars>>

\* a faulty continuation of handleTest: the branches of `if (isConnected)` swapped
ProbeResolveSwapped(i, isConnected) ==
    /\ i \in 1..Len(pending)
    /\ pending' = RemoveAt(pending, i)
    /\ IF isConnected
       THEN status' = "error" /\ message' = MsgConnectFailed
       ELSE status' = "success" /\ message' = MsgConnected
    /\ UNCHANGED <<apiKey, showKey, storage, updateCalls, timers, onCloseCalls>>
    /\ UNCHANGED <<codecVars, toolbarVars>>

\* the i-th pending testConnection call resolves with isConnected: handleTest after its await
ProbeResolve(i, isConnected) ==
    /\ i \in 1..Len(pending)
    /\ pending' = RemoveAt(pending, i)
    /\ IF isConnected
       THEN status' = "success" /\ message' = MsgConnected
       ELSE status' = "error" /\ message' = MsgConnectFailed
    /\ UNCHANGED <<apiKey, showKey, storage, updateCalls, timers, onCloseCalls>>
    /\ UNCHANGED <<codecVars, toolbarVars>>

\* the i-th pending testConnection call rejects: the await throws out of handleTest,
\* which has no catch, and nothing after the await runs
ProbeReject(i) ==
    /\ i \in 1..Len(pending)
    /\ pending' = RemoveAt(pending, i)
    /\ UNCHANGED <<apiKey, status, message, showKey, storage, updateCalls, timers,
                   onCloseCalls>>
    /\ UNCHANGED <<codecVars, toolbarVars>>

\* a faulty handleSave: it stores and pushes apiKey.trim() instead of apiKey
HandleSaveTrimmed ==
    /\ DialogOpen
    /\ ~ButtonsDisabled
    /\ \/ /\ IsBlank(apiKey)
          /\ status' = "error"
          /\ message' = MsgNothingToSave
          /\ UNCHANGED <<storage, updateCalls, timers>>
       \/ /\ ~IsBlank(apiKey)
          /\ Len(updateCalls) < MaxSaves
          /\ storage' = Record(encryptKey(Trim(apiKey)))
          /\ updateCalls' = Append(updateCalls, Trim(apiKey))
          /\ status' = "success"
          /\ message' = MsgSaved
          /\ timers' = timers + 1
    /\ UNCHANGED <<apiKey, showKey, pending, onCloseCalls>>
    /\ UNCHANGED <<codecVars, toolbarVars>>

\* a click on the Save button: handleSave.  encryptKey never throws (it catches and
\* returns ''), and localStorage.setItem and updateApiKey are taken not to throw,
\* so the catch of handleSave is not entered.
HandleSave ==
    /\ DialogOpen
    /\ ~ButtonsDisabled
    /\ \/ /\ IsBlank(apiKey)
          /\ status' = "error"
          /\ message' = MsgNothingToSave
          /\ UNCHANGED <<storage, updateCalls, timers>>
       \/ /\ ~IsBlank(apiKey)
          /\ Len(updateCalls) < MaxSaves
          /\ storage' = Record(encryptKey(apiKey))
          /\ updateCalls' = Append(updateCalls, apiKey)
          /\ status' = "success"
          /\ message' = MsgSaved
          /\ timers' = timers + 1
    /\ UNCHANGED <<apiKey, showKey, pending, onCloseCalls>>
    /\ UNCHANGED <<codecVars, toolbarVars>>

\* a setTimeout callback of handleSave runs after its 1500 ms: onClose()
TimerFire ==
    /\ timers > 0
    /\ timers' = timers - 1
    /\ onCloseCalls' = onCloseCalls + 1
    /\ UNCHANGED <<apiKey, status, message, showKey, storage, pending, updateCalls>>
    /\ UNCHANGED <<codecVars, toolbarVars>>

\* a click on the X button: onClick={onClose}
Dismiss ==
    /\ DialogOpen
    /\ onCloseCalls' = onCloseCalls + 1
    /\ UNCHANGED <<apiKey, status, message, showKey, storage, pending, updateCalls,
                   timers>>
    /\ UNCHANGED <<codecVars, toolbarVars>>

---------------------------------------------------------------------------
(* Credential codec on its own *)

\* characters of the free suffix of a codec input: NUL, 'A', U+00FF, U+200B
CodecAlphabet == {0, 65, 255, 8203}

\* a fixed prefix of n characters U+00C9, U+00CA, ...
Pad(n) == [i \in 1..n |-> 200 + i]

\* the codec inputs: a prefix of up to MaxPad characters, then any suffix
CodecInputs ==
    {Pad(n) \o t : n \in 0..MaxPad, t \in StringsUpTo(CodecAlphabet, MaxTail)}

\* the codec not in use
CodecIdle ==
    /\ plain = <<>>
    /\ cipher = <<>>
    /\ decoded = <<>>
    /\ codecPc = "start"

CodecInit ==
    /\ plain \in CodecInputs
    /\ cipher = <<>>
    /\ decoded = <<>>
    /\ codecPc = "start"

Encrypt ==
    /\ codecPc = "start"
    /\ cipher' = encryptKey(plain)
    /\ codecPc' = "encrypted"
    /\ UNCHANGED <<plain, decoded>>
    /\ UNCHANGED <<dialogVars, toolbarVars>>

Decrypt ==
    /\ codecPc = "encrypted"
    /\ decoded' = decryptKey(cipher)
    /\ codecPc' = "decrypted"
    /\ UNCHANGED <<plain, cipher>>
    /\ UNCHANGED <<dialogVars, toolbarVars>>

---------------------------------------------------------------------------
(* Toolbar: the row-count field and the add button *)

\* characters entered into the row-count field: '-', '0', '5', 'a'
RowAlphabet == {45, 48, 53, 97}

RowTexts == StringsUpTo(RowAlphabet, MaxRowTextLen)

IsDigit(c) == c \in 48..57

RECURSIVE DigitPrefix(_)
\* the longest prefix of s made of decimal digits
DigitPrefix(s) ==
    IF s # <<>> /\ IsDigit(Head(s)) THEN <<Head(s)>> \o DigitPrefix(Tail(s)) ELSE <<>>

RECURSIVE DigitsValue(_)
\* the number a sequence of decimal digits denotes
DigitsValue(d) ==
    IF d = <<>> THEN 0
    ELSE 10 * DigitsValue(SubSeq(d, 1, Len(d) - 1)) + (d[Len(d)] - 48)

\* parseInt(s) with no radix, on texts without a 0x prefix: leading white space
\* skipped, an optional sign, then the digits up to the first other character;
\* NaN when there is no digit
ParseInt(s) ==
    LET t      == TrimStart(s)
        neg    == t # <<>> /\ Head(t) = 45
        signed == t # <<>> /\ Head(t) \in {43, 45}
        digits == DigitPrefix(IF signed THEN Tail(t) ELSE t)
    IN  IF digits = <<>> THEN [nan |-> TRUE, value |-> 0]
        ELSE [nan |-> FALSE,
              value |-> IF neg THEN 0 - DigitsValue(digits) ELSE DigitsValue(digits)]

Max(a, b) == IF a >= b THEN a ELSE b

\* a faulty clamp: parseInt(e.target.value) || 0, without the Math.max
RowCountOfNoClamp(text) ==
    LET p == ParseInt(text)
    IN  IF p.nan \/ p.value = 0 THEN 0 ELSE p.value

\* Math.max(1, parseInt(e.target.value) || 0)
RowCountOf(text) ==
    LET p == ParseInt(text)
    IN  Max(1, IF p.nan \/ p.value = 0 THEN 0 ELSE p.value)

\* useState(1); the field shows "1"
ToolbarInit ==
    /\ rowText = <<49>>
    /\ rowCountInput = 1
    /\ addRowsCalls = <<>>

\* the row-count field's onChange
ChangeRowCount(text) ==
    /\ rowText' = text
    /\ rowCountInput' = RowCountOf(text)
    /\ UNCHANGED addRowsCalls
    /\ UNCHANGED <<dialogVars, codecVars>>

\* a click on the add button: onAddRows(rowCountInput)
AddRows ==
    /\ Len(addRowsCalls) < MaxAddCalls
    /\ addRowsCalls' = Append(addRowsCalls, rowCountInput)
    /\ UNCHANGED <<rowText, rowCountInput>>
    /\ UNCHANGED <<dialogVars, codecVars>>

---------------------------------------------------------------------------
(* Specifications *)

\* the settings dialog
Init == DialogInit /\ CodecIdle /\ ToolbarInit

Next ==
    \/ \E v \in DialogInputs : ChangeInput(v)
    \/ ToggleShowKey
    \/ HandleTest
    \/ \E i \in 1..MaxInFlight, isConnected \in BOOLEAN : ProbeResolve(i, isConnected)
    \/ \E i \in 1..MaxInFlight : ProbeReject(i)
    \/ HandleSave
    \/ TimerFire
    \/ Dismiss

Spec == Init /\ [][Next]_vars

\* the codec applied to each input
InitCodec == CodecInit /\ DialogIdle /\ ToolbarInit

NextCodec == Encrypt \/ Decrypt

SpecCodec == InitCodec /\ [][NextCodec]_vars

\* the toolbar
InitToolbar == ToolbarInit /\ DialogIdle /\ CodecIdle

NextToolbar ==
    \/ \E text \in RowTexts : ChangeRowCount(text)
    \/ AddRows

SpecToolbar == InitToolbar /\ [][NextToolbar]_vars

---------------------------------------------------------------------------
(* Properties *)

\* every character is a byte (a code point in 0..255)
IsByteString(s) == \A i \in 1..Len(s) : s[i] \in 0..255

\* every character is white space (so also the empty string)
WhiteSpaceOnly(s) == \A i \in 1..Len(s) : IsWhiteSpace(s[i])

Last(s) == s[Len(s)]

\* C1: for every string of bytes, of any length, also longer than the salt,
\* decryptKey(encryptKey(s)) = s.
C1_RoundTrip ==
    (codecPc = "decrypted" /\ IsByteString(plain)) => decoded = plain

\* C1 witness: a byte string longer than the salt, ending in U+00FF, has been
\* encrypted and decrypted.
C1_Witness ==
    /\ codecPc = "decrypted"
    /\ IsByteString(plain)
    /\ Len(plain) > Len(SALT) + 1
    /\ Last(plain) = 255
    /\ cipher # <<>>

\* C2 (as claimed): whenever the storage key holds a record after a Save of this
\* session, loadSavedApiKey() returns the credential of the most recent Save.
C2_LoadReturnsLastSaved ==
    (storage.present /\ updateCalls # <<>>) => loadSavedApiKey(storage) = Last(updateCalls)

\* C3 (as claimed): at most one testConnection call is in flight.
C3_AtMostOneInFlight == Len(pending) <= 1

\* C4: with a white-space-only input a click on Test or on Save sets status
\* 'error' and neither starts a testConnection call, nor writes the storage key,
\* nor calls updateApiKey.
C4_EmptyInputGuard ==
    [][ (WhiteSpaceOnly(apiKey) /\ (HandleTest \/ HandleSave)) =>
            /\ status' = "error"
            /\ message' # ""
            /\ pending' = pending
            /\ storage' = storage
            /\ updateCalls' = updateCalls ]_vars

\* C4 witness: Test was clicked on an input of one space and the dialog shows the
\* validation error.
C4_Witness ==
    /\ apiKey = <<32>>
    /\ status = "error"
    /\ message = MsgEnterKey
    /\ pending = <<>>

\* C5 (as claimed): a click on an empty input, a Save whose encoding fails, and a
\* probe that resolves false or rejects each leave status 'error' with a
\* non-empty message.
C5_FailuresShown ==
    [][ /\ (WhiteSpaceOnly(apiKey) /\ (HandleTest \/ HandleSave)) =>
                (status' = "error" /\ message' # "")
        /\ (HandleSave /\ ~WhiteSpaceOnly(apiKey) /\ EncryptFails(apiKey)) =>
                (status' = "error" /\ message' # "")
        /\ (\E i \in 1..Len(pending) : ProbeResolve(i, FALSE)) =>
                (status' = "error" /\ message' # "")
        /\ (\E i \in 1..Len(pending) : ProbeReject(i)) =>
                (status' = "error" /\ message' # "") ]_vars

\* C6 (as claimed): onClose is never invoked a second time.
C6_CloseAtMostOnce == onCloseCalls <= 1

C9_IdleUntilTestOrSave ==
    [][ /\ (\E v \in DialogInputs : ChangeInput(v)) => (status' = "idle" /\ message' = "")
        /\ (status = "idle" /\ status' # "idle") => (HandleTest \/ HandleSave) ]_vars

AllDigits(t) == t # <<>> /\ \A i \in 1..Len(t) : IsDigit(t[i])

\* a text that starts neither with a digit nor with a sign and a digit
NonNumeric(t) ==
    ~(\/ (t # <<>> /\ IsDigit(t[1]))
      \/ (Len(t) >= 2 /\ t[1] \in {43, 45} /\ IsDigit(t[2])))

\* C8: the row count is always at least 1; the text of a positive integer n gives
\* n; 0, a negative number and a non-numeric text give 1; and add-rows calls
\* onAddRows once, with the row count.
C8_RowCountClamp ==
    /\ [](/\ rowCountInput >= 1
          /\ (AllDigits(rowText) /\ DigitsValue(rowText) > 0) =>
                rowCountInput = DigitsValue(rowText)
          /\ (AllDigits(rowText) /\ DigitsValue(rowText) = 0) => rowCountInput = 1
          /\ (Len(rowText) >= 2 /\ rowText[1] = 45 /\ AllDigits(Tail(rowText))) =>
                rowCountInput = 1
          /\ NonNumeric(rowText) => rowCountInput = 1)
    /\ [][ /\ AddRows => addRowsCalls' = Append(addRowsCalls, rowCountInput)
           /\ addRowsCalls' # addRowsCalls =>
                (AddRows /\ Last(addRowsCalls') = rowCountInput) ]_vars

\* C8 witness: add-rows called onAddRows(1) at a row count of 1, then 5 was entered
\* and add-rows called onAddRows(5).
C8_Witness ==
    /\ rowText = <<53>>
    /\ rowCountInput = 5
    /\ addRowsCalls = <<1, 5>>

====
